---- MODULE Spec2Model ----
(***************************************************************************)
(* Ownership resolution of kitupe.                                         *)
(*                                                                         *)
(*   ton_script.py  find_final_owners / find_owners : the recursive walk   *)
(*                  over the Wikidata ownership relations.                 *)
(*   app.py         find_owner : the Tavily / Wikidata / Wikipedia         *)
(*                  pipeline and its score_result ranking.                 *)
(*                                                                         *)
(* The knowledge graph and the providers' answers are the environment:     *)
(* Init draws them from bounded sets and no action changes them.           *)
(***************************************************************************)
EXTENDS Integers, Sequences, FiniteSets, TLC

VARIABLES
    entry,          \* which entry point this run exercises
    edges,          \* knowledge graph: <<a, b>> means "a owned by b" (P127 / P749)
    humans,         \* entities whose P31 type contains "Q5"
    sparqlUp,       \* whether the SPARQL endpoint answers (else run_sparql gives [])
    found,          \* whether search_wikidata_entity(name) finds a QID
    phase,          \* "idle" between calls, "walking" inside find_owners
    stack,          \* call stack of find_owners, top frame last
    visited,        \* the visited set of the running traversal
    results,        \* the results list of the running traversal
    fetches,        \* run_sparql calls issued by the running traversal
    expanded,       \* the entities those calls were issued for, in order
    returned,       \* the values returned by the calls made so far
    tavily,         \* what the Tavily search answers for the query
    wikidata,       \* what Wikidata holds for the query
    wikipedia,      \* what the Wikipedia infobox holds for the query
    cands,          \* a candidate list handed to the ranking on its own
    all_candidates  \* find_owner's all_candidates after the sort

vars == <<entry, edges, humans, sparqlUp, found, phase, stack, visited,
          results, fetches, expanded, returned, tavily, wikidata, wikipedia,
          cands, all_candidates>>

(***************************************************************************)
(* Bounds.                                                                 *)
(***************************************************************************)
MaxEnt == 3

MaxEdges == 3

MaxCalls == 2

MaxCands == 2

Ent == 1..MaxEnt

\* The entity the query resolves to.
Start == 1

\* Frames the model lets the call stack hold; a correct walk needs at most
\* MaxEnt + 1 (one frame per unvisited entity, one for the visited check).
MaxDepth == MaxEnt + 2

(***************************************************************************)
(* ton_script.py                                                           *)
(***************************************************************************)
None == [none |-> TRUE]

\* get_label: the provider's label of an entity, a value distinct from the QID.
Label(q) == <<"label", q>>

\* The free-text name handed to find_final_owners.
NameLabel == <<"name", 0>>

RECURSIVE SortedSeq(_)
SortedSeq(S) ==
    IF S = {} THEN <<>>
    ELSE LET m == CHOOSE x \in S : \A y \in S : x <= y
         IN <<m>> \o SortedSeq(S \ {m})

Row(o) == [owner |-> o, ownerLabel |-> Label(o), human |-> o \in humans]

RowSeq(s) == [i \in 1..Len(s) |-> Row(s[i])]

\* The entities of the knowledge graph.
Nodes == Ent \cup {e[1] : e \in edges} \cup {e[2] : e \in edges}

\* The rows the query of find_owners selects for qid: ?owner with
\* (qid P127|P749 ?owner), then ?owner with (?owner P127|P749 qid).
QueryRows(q) ==
    RowSeq(SortedSeq({o \in Nodes : <<q, o>> \in edges})
           \o SortedSeq({o \in Nodes : <<o, q>> \in edges}))

\* run_sparql: the bindings, or [] when the request fails (a transport error,
\* or an endpoint that rejects the query).
run_sparql(q) == IF sparqlUp THEN QueryRows(q) ELSE <<>>

\* A visited set that outlives the call (a mutable default argument).
SharedVisited == visited

\* visited = set() when the caller passes none.
NewVisited == {}

\* A walk that forgets to record the entity it expands.
MarkVisitedForgets(v, q) == v

\* visited.add(qid)
MarkVisited(v, q) == v \cup {q}

OrgResult(path, q) == [chemin |-> path, type |-> "organisation", wikipedia |-> q]

HumanResult(path, q) == [chemin |-> path, type |-> "humain", wikipedia |-> q]

UnknownResult == [chemin |-> <<NameLabel>>, type |-> "inconnu"]

Frame(q, path) == [qid |-> q, path |-> path, owners |-> <<>>, stage |-> "enter"]

Top == stack[Len(stack)]

Pop == SubSeq(stack, 1, Len(stack) - 1)

ReplaceTop(f) == [stack EXCEPT ![Len(stack)] = f]

provider == <<entry, edges, humans, sparqlUp, found, tavily, wikidata, wikipedia,
              cands, all_candidates>>

\* find_final_owners(name) when the entity search finds nothing.
FindFinalOwnersUnknown ==
    /\ entry = "find_final_owners"
    /\ phase = "idle"
    /\ Len(returned) < MaxCalls
    /\ ~found
    /\ returned' = Append(returned, <<UnknownResult>>)
    /\ UNCHANGED <<provider, phase, stack, visited, results, fetches, expanded>>

\* find_final_owners(name) -> find_owners(qid): the defaults of the first call.
FindFinalOwners ==
    /\ entry = "find_final_owners"
    /\ phase = "idle"
    /\ Len(returned) < MaxCalls
    /\ found
    /\ phase' = "walking"
    /\ visited' = NewVisited
    /\ results' = <<>>
    /\ fetches' = 0
    /\ expanded' = <<>>
    /\ stack' = <<Frame(Start, <<Label(Start)>>)>>
    /\ UNCHANGED <<provider, returned>>

InFrame(stage) ==
    /\ phase = "walking"
    /\ stack # <<>>
    /\ Top.stage = stage

\* if qid in visited: return results
EnterVisited ==
    /\ InFrame("enter")
    /\ Top.qid \in visited
    /\ stack' = Pop
    /\ UNCHANGED <<provider, phase, visited, results, fetches, expanded, returned>>

\* visited.add(qid); owners = run_sparql(query); if not owners: append, return
EnterLeaf ==
    /\ InFrame("enter")
    /\ Top.qid \notin visited
    /\ run_sparql(Top.qid) = <<>>
    /\ visited' = MarkVisited(visited, Top.qid)
    /\ fetches' = fetches + 1
    /\ expanded' = Append(expanded, Top.qid)
    /\ results' = Append(results, OrgResult(Top.path, Top.qid))
    /\ stack' = Pop
    /\ UNCHANGED <<provider, phase, returned>>

\* visited.add(qid); owners = run_sparql(query); owners non-empty: start the loop
EnterOwners ==
    /\ InFrame("enter")
    /\ Top.qid \notin visited
    /\ run_sparql(Top.qid) # <<>>
    /\ visited' = MarkVisited(visited, Top.qid)
    /\ fetches' = fetches + 1
    /\ expanded' = Append(expanded, Top.qid)
    /\ stack' = ReplaceTop([Top EXCEPT !.owners = run_sparql(Top.qid), !.stage = "loop"])
    /\ UNCHANGED <<provider, phase, results, returned>>

\* for o in owners: "Q5" in owner_type -> results.append(humain)
LoopHuman ==
    /\ InFrame("loop")
    /\ Top.owners # <<>>
    /\ Head(Top.owners).human
    /\ results' = Append(results,
                         HumanResult(Append(Top.path, Head(Top.owners).ownerLabel),
                                     Head(Top.owners).owner))
    /\ stack' = ReplaceTop([Top EXCEPT !.owners = Tail(Top.owners)])
    /\ UNCHANGED <<provider, phase, visited, fetches, expanded, returned>>

\* for o in owners: else find_owners(owner_qid, visited, new_path, results)
LoopRecurse ==
    /\ InFrame("loop")
    /\ Top.owners # <<>>
    /\ ~Head(Top.owners).human
    /\ Len(stack) < MaxDepth
    /\ stack' = Append(ReplaceTop([Top EXCEPT !.owners = Tail(Top.owners)]),
                       Frame(Head(Top.owners).owner,
                             Append(Top.path, Head(Top.owners).ownerLabel)))
    /\ UNCHANGED <<provider, phase, visited, results, fetches, expanded, returned>>

\* the loop is exhausted: return results
LoopEnd ==
    /\ InFrame("loop")
    /\ Top.owners = <<>>
    /\ stack' = Pop
    /\ UNCHANGED <<provider, phase, visited, results, fetches, expanded, returned>>

\* the outermost find_owners returns to find_final_owners' caller
WalkReturn ==
    /\ phase = "walking"
    /\ stack = <<>>
    /\ phase' = "idle"
    /\ returned' = Append(returned, results)
    /\ UNCHANGED <<provider, stack, visited, results, fetches, expanded>>

\* The statements of a running traversal.
WalkStep ==
    \/ EnterVisited
    \/ EnterLeaf
    \/ EnterOwners
    \/ LoopHuman
    \/ LoopRecurse
    \/ LoopEnd
    \/ WalkReturn

WalkNext == FindFinalOwnersUnknown \/ FindFinalOwners \/ WalkStep

Graphs == {g \in SUBSET (Ent \X Ent) : Cardinality(g) <= MaxEdges}

\* The knowledge graph the walk can meet: any graph and any typing of its
\* entities (the queried entity included) when the entity search finds the
\* QID and the endpoint answers; nothing of it is read otherwise.
KnowledgeGraph ==
    /\ sparqlUp \in BOOLEAN
    /\ found \in BOOLEAN
    /\ IF sparqlUp /\ found
       THEN edges \in Graphs /\ humans \in SUBSET Ent
       ELSE edges = {} /\ humans = {}

\* No traversal has run yet.
WalkerAtRest ==
    /\ phase = "idle"
    /\ stack = <<>>
    /\ visited = {}
    /\ results = <<>>
    /\ fetches = 0
    /\ expanded = <<>>
    /\ returned = <<>>
    /\ tavily = [kind |-> "fail"]
    /\ wikidata = [fail |-> TRUE, claims |-> {}, human |-> FALSE]
    /\ wikipedia = "fail"
    /\ cands = <<>>
    /\ all_candidates = <<>>

InitWalk ==
    /\ entry = "find_final_owners"
    /\ KnowledgeGraph
    /\ WalkerAtRest

(***************************************************************************)
(* app.py                                                                  *)
(***************************************************************************)
MatchTypes == {"subsidiary", "owned", "parent", "owns", "private", "sole_owner",
               "brand_of"}

\* What the Tavily request and the text it returns amount to:
\*   fail     no API key, a transport error or an empty body: search_tavily is None
\*   public   the text holds a public-company indicator
\*   match    the best ownership pattern matched, in the AI answer (ai) or a result
\*   unknown  no pattern matched
\*   error    the extraction raised
TavilyAnswers ==
    {[kind |-> k] : k \in {"fail", "public", "unknown", "error"}}
    \cup {[kind |-> "match", match_type |-> m, ai |-> a] : m \in MatchTypes, a \in BOOLEAN}

\* What Wikidata holds: the lookup fails, or the company's claims (P749 parent
\* organization, P127 owned by, P414 stock exchange) and whether the owner is Q5.
WikidataAnswers ==
    {[fail |-> TRUE, claims |-> {}, human |-> FALSE]}
    \cup {[fail |-> FALSE, claims |-> c, human |-> h] :
            c \in SUBSET {"P749", "P127", "P414"}, h \in BOOLEAN}

\* What Wikipedia holds: the lookup fails (no page, no infobox, no matching
\* row), or the infobox row whose header holds one keyword and whose cell a link.
WikipediaAnswers == {"fail", "parent", "owner", "subsidiary of", "owned by", "founder"}

\* owner_info["owner"] = None
NoOwner == "None"

search_tavily(t) == IF t.kind = "fail" THEN None ELSE t

\* The match's confidence in tenths: 0.9 / 0.8 / 0.7 / 0.5, plus 0.1 for the AI answer.
MatchConfidence(m, ai) ==
    (IF m \in {"subsidiary", "owned", "parent"} THEN 9
     ELSE IF m \in {"owns", "sole_owner", "private"} THEN 8
     ELSE IF m = "brand_of" THEN 7
     ELSE 5)
    + (IF ai THEN 1 ELSE 0)

extract_owner_from_tavily(t) ==
    IF t.kind = "public"
    THEN [owner |-> NoOwner, ownership_type |-> "public", confidence |-> "high"]
    ELSE IF t.kind = "match"
    THEN [owner |-> "tavily_owner", ownership_type |-> t.match_type,
          confidence |-> IF MatchConfidence(t.match_type, t.ai) > 8
                         THEN "high" ELSE "medium"]
    ELSE IF t.kind = "error"
    THEN [owner |-> NoOwner, ownership_type |-> "error", confidence |-> "low"]
    ELSE [owner |-> NoOwner, ownership_type |-> "unknown", confidence |-> "low"]

\* A candidate dictionary; a key the dictionary lacks reads as "absent" / FALSE.
Candidate(path, human, type, conf, source, verified) ==
    [path |-> path, is_human |-> human, ownership_type |-> type,
     confidence |-> conf, source |-> source, verified |-> verified]

\* results["primary_result"] from owner_info
PrimaryResult(info) ==
    IF info.owner # NoOwner
    THEN Candidate(<<"query", info.owner>>, FALSE, info.ownership_type,
                   info.confidence, "Tavily Search", FALSE)
    ELSE IF info.ownership_type = "public"
    THEN Candidate(<<"query">>, FALSE, "public", "high", "Tavily Search", FALSE)
    ELSE None

verify_with_wikidata(w) ==
    IF w.fail THEN None
    ELSE IF "P749" \in w.claims
    THEN Candidate(<<"company_label", "wikidata_owner">>, w.human, "parent_company",
                   "absent", "Wikidata", TRUE)
    ELSE IF "P127" \in w.claims
    THEN Candidate(<<"company_label", "wikidata_owner">>, w.human, "owned_by",
                   "absent", "Wikidata", TRUE)
    ELSE IF "P414" \in w.claims
    THEN Candidate(<<"company_label">>, FALSE, "public", "absent", "Wikidata", TRUE)
    ELSE None

\* priority_keywords: keyword -> match_type
KeywordType(k) ==
    CASE k = "parent" -> "parent"
      [] k = "owner" -> "owner"
      [] k = "subsidiary of" -> "subsidiary"
      [] k = "owned by" -> "owned"
      [] OTHER -> "founder"

verify_with_wikipedia(k) ==
    IF k = "fail" THEN None
    ELSE IF k = "founder" THEN None   \* 'owner' not in header: skipped
    ELSE Candidate(<<"wiki_title", "wikipedia_owner">>, k \in {"owner", "founder"},
                   KeywordType(k), "absent", "Wikipedia", TRUE)

\* A verification bonus that confidence and relation type together can exceed.
VerifiedBonusSmall(r) == IF r.verified THEN 70 ELSE 0

\* if r.get("verified"): score += 100
VerifiedBonus(r) == IF r.verified THEN 100 ELSE 0

ConfidenceBonus(r) ==
    IF r.confidence = "high" THEN 50
    ELSE IF r.confidence = "medium" THEN 25
    ELSE 0

TypeBonus(r) ==
    IF r.ownership_type \in {"parent_company", "owned_by", "subsidiary"} THEN 30
    ELSE IF r.ownership_type = "public" THEN 20
    ELSE IF r.ownership_type \in {"owns", "private"} THEN 15
    ELSE 0

score_result(r) == VerifiedBonus(r) + ConfidenceBonus(r) + TypeBonus(r)

\* A sort that puts c before the elements of equal score (not stable).
InsertByScoreUnstable(sorted, c) ==
    LET k == Cardinality({i \in 1..Len(sorted) : score_result(sorted[i]) > score_result(c)})
    IN SubSeq(sorted, 1, k) \o <<c>> \o SubSeq(sorted, k + 1, Len(sorted))

\* Where a stable descending sort puts c in an already sorted list.
InsertByScore(sorted, c) ==
    LET k == Cardinality({i \in 1..Len(sorted) : score_result(sorted[i]) >= score_result(c)})
    IN SubSeq(sorted, 1, k) \o <<c>> \o SubSeq(sorted, k + 1, Len(sorted))

RECURSIVE SortFrom(_, _)
SortFrom(sorted, rest) ==
    IF rest = <<>> THEN sorted
    ELSE SortFrom(InsertByScore(sorted, Head(rest)), Tail(rest))

\* all_candidates.sort(key=score_result, reverse=True): stable, highest first
SortByScore(s) == SortFrom(<<>>, s)

\* all_candidates[0] if all_candidates else None
BestOf(sorted) == IF sorted # <<>> THEN sorted[1] ELSE None

\* A chain that starts from the query even when nothing was resolved.
ChainOfSeeded(best) == IF best # None /\ Len(best.path) > 1 THEN best.path ELSE <<"query">>

\* best_result's path when it has more than one label
ChainOf(best) == IF best # None /\ Len(best.path) > 1 THEN best.path ELSE <<>>

\* the results dictionary find_owner starts from
EmptyResults ==
    [query |-> "query", primary_result |-> None, verification |-> <<>>,
     best_result |-> None, ownership_chain |-> <<>>]

OptSeq(c) == IF c = None THEN <<>> ELSE <<c>>

\* results["verification"]: Wikidata's candidate, then Wikipedia's
Verification(wd, wp) == OptSeq(verify_with_wikidata(wd)) \o OptSeq(verify_with_wikipedia(wp))

\* all_candidates before the sort: the primary result, then the verifications
Collect(primary, verification) == OptSeq(primary) \o verification

\* What find_owner collects once Tavily has answered.
Collected(t, wd, wp) ==
    Collect(PrimaryResult(extract_owner_from_tavily(t)), Verification(wd, wp))

\* find_owner: the value it returns
FindOwnerResult(t, wd, wp) ==
    IF search_tavily(t) = None THEN EmptyResults
    ELSE LET primary == PrimaryResult(extract_owner_from_tavily(t))
             best == BestOf(SortByScore(Collected(t, wd, wp)))
         IN [query |-> "query", primary_result |-> primary,
             verification |-> Verification(wd, wp),
             best_result |-> best, ownership_chain |-> ChainOf(best)]

walker == <<edges, humans, sparqlUp, found, phase, stack, visited, results,
            fetches, expanded>>

\* One call of find_owner(query).
FindOwner ==
    /\ entry = "find_owner"
    /\ Len(returned) < MaxCalls
    /\ all_candidates' = IF search_tavily(tavily) = None THEN <<>>
                         ELSE SortByScore(Collected(tavily, wikidata, wikipedia))
    /\ returned' = Append(returned, FindOwnerResult(tavily, wikidata, wikipedia))
    /\ UNCHANGED <<entry, walker, tavily, wikidata, wikipedia, cands>>

\* Steps 4 and 5 of find_owner applied to a candidate list of its own.
Rank ==
    /\ entry = "rank"
    /\ Len(returned) < MaxCalls
    /\ all_candidates' = SortByScore(cands)
    /\ returned' = Append(returned,
                          [best_result |-> BestOf(SortByScore(cands)),
                           ownership_chain |-> ChainOf(BestOf(SortByScore(cands)))])
    /\ UNCHANGED <<entry, walker, tavily, wikidata, wikipedia, cands>>

IdleWalker ==
    /\ edges = {}
    /\ humans = {}
    /\ sparqlUp = TRUE
    /\ found = TRUE
    /\ phase = "idle"
    /\ stack = <<>>
    /\ visited = {}
    /\ results = <<>>
    /\ fetches = 0
    /\ expanded = <<>>
    /\ returned = <<>>
    /\ all_candidates = <<>>

InitOwner ==
    /\ entry = "find_owner"
    /\ IdleWalker
    /\ tavily \in TavilyAnswers
    /\ wikidata \in WikidataAnswers
    /\ wikipedia \in WikipediaAnswers
    /\ cands = <<>>

\* Candidate dictionaries the ranking is tried on.
RankCandidates ==
    {Candidate(<<"query", "owner">>, h, t, c, "any", v) :
        h \in BOOLEAN, t \in {"owned_by", "public", "brand_of"},
        c \in {"high", "medium", "absent"}, v \in BOOLEAN}

SeqsUpTo(S, n) == UNION {[1..k -> S] : k \in 0..n}

InitRank ==
    /\ entry = "rank"
    /\ IdleWalker
    /\ tavily = [kind |-> "fail"]
    /\ wikidata = [fail |-> TRUE, claims |-> {}, human |-> FALSE]
    /\ wikipedia = "fail"
    /\ cands \in SeqsUpTo(RankCandidates, MaxCands)

Init == InitWalk \/ InitOwner \/ InitRank

Next == WalkNext \/ FindOwner \/ Rank

Spec == Init /\ [][Next]_vars

\* A running traversal executes its next statement; when a call is made is the
\* caller's choice.
FairSpec == Spec /\ WF_vars(WalkStep)

\* Graphs on four entities in which branches converge: 1 owned by 2 and 3,
\* 2 owned by 3, 2 and 3 owned by 4 (the diamond 1 -> {2, 3} -> 4 is one of
\* them), and every sub-graph; 4 is a person or an organization.
ConvergentEdges == {<<1, 2>>, <<1, 3>>, <<2, 3>>, <<2, 4>>, <<3, 4>>}

InitConverge ==
    /\ entry = "find_final_owners"
    /\ sparqlUp \in BOOLEAN
    /\ found \in BOOLEAN
    /\ edges \in SUBSET ConvergentEdges
    /\ humans \in SUBSET {4}
    /\ WalkerAtRest

\* find_final_owners on the convergent graphs.
ConvergeSpec == InitConverge /\ [][WalkNext]_vars

(***************************************************************************)
(* Properties.                                                             *)
(***************************************************************************)
WalkRun == entry = "find_final_owners" /\ found

\* The value of the i-th completed call.
WalkReturned(i) == WalkRun /\ i \in 1..Len(returned)

RECURSIVE RowsLeft(_)
RowsLeft(st) == IF st = <<>> THEN 0 ELSE Len(Head(st).owners) + RowsLeft(Tail(st))

\* What a running traversal still has to do: entities not yet expanded (each
\* can add at most 2 * MaxEdges rows), rows not yet iterated (each can add one
\* frame), frames not yet returned, and the return to the caller.
WorkLeft ==
    (6 * MaxEdges + 1) * Cardinality(Ent \ visited)
    + 3 * RowsLeft(stack)
    + Len(stack)
    + (IF phase = "walking" THEN 1 ELSE 0)

\* The guards of WalkStep's statements: the outermost call has returned, a
\* frame is at its entry (visited or not, with or without owners), or a frame
\* is in its loop and the loop is over, the owner is human, or the recursive
\* call has room on the stack.
WalkCanStep ==
    \/ stack = <<>>
    \/ Top.stage = "enter"
    \/ /\ Top.stage = "loop"
       /\ \/ Top.owners = <<>>
          \/ Head(Top.owners).human
          \/ Len(stack) < MaxDepth

\* WalkCanStep is the enabling condition of WalkStep.
WalkCanStepIsEnabled == phase = "walking" => (WalkCanStep <=> ENABLED WalkStep)

\* C1: find_owners terminates on every graph, cyclic or not: a running
\* traversal can always execute its next statement, and every statement
\* strictly decreases the natural number WorkLeft, so only finitely many
\* relation fetches and recursive calls happen before the walk returns.
C1_WalkTerminates ==
    /\ [](phase = "walking" => WalkCanStep)
    /\ [][WalkStep => WorkLeft' < WorkLeft]_vars

\* The same as a liveness property of FairSpec: a started traversal returns.
WalkEventuallyReturns == (phase = "walking") ~> (phase = "idle" /\ returned # <<>>)

\* A traversal of the two-node cycle 1 <-> 2 that expanded both nodes and returned.
C1_Witness ==
    /\ WalkRun
    /\ sparqlUp
    /\ {<<1, 2>>, <<2, 1>>} \subseteq edges
    /\ humans = {}
    /\ phase = "idle"
    /\ returned # <<>>
    /\ fetches >= 2

\* C2: the list find_owners returns holds at least one candidate, and on the
\* two-node cycle it holds a candidate of type organisation.
C2_NonEmptyResult ==
    \A i \in 1..Len(returned) :
        WalkReturned(i) =>
            /\ Len(returned[i]) >= 1
            /\ (sparqlUp /\ edges = {<<1, 2>>, <<2, 1>>} /\ humans = {}
                  => \E k \in 1..Len(returned[i]) : returned[i][k].type = "organisation")

\* C3: with the single edge "1 owned by 2", 2 an organization without owner,
\* find_owners(1) returns exactly the candidate [1, 2] of type organisation.
C3_SingleEdgeChain ==
    \A i \in 1..Len(returned) :
        (WalkReturned(i) /\ sparqlUp /\ edges = {<<1, 2>>} /\ humans = {})
            => returned[i] = <<OrgResult(<<Label(1), Label(2)>>, 2)>>

OwnerReturned(i) == entry = "find_owner" /\ i \in 1..Len(returned)

\* C4: every candidate a provider would produce is collected and considered
\* for best_result, whichever other provider fails.
C4_ProviderIsolation ==
    \A i \in 1..Len(returned) :
        OwnerReturned(i) =>
            /\ Collect(returned[i].primary_result, returned[i].verification)
                 = Collected(tavily, wikidata, wikipedia)
            /\ returned[i].best_result
                 = BestOf(SortByScore(Collected(tavily, wikidata, wikipedia)))

\* Every candidate dictionary a provider can contribute.
ProviderCandidates ==
    ({PrimaryResult(extract_owner_from_tavily(t)) : t \in TavilyAnswers}
     \cup {verify_with_wikidata(w) : w \in WikidataAnswers}
     \cup {verify_with_wikipedia(k) : k \in WikipediaAnswers}) \ {None}

WellFormed(r) ==
    /\ DOMAIN r = {"query", "primary_result", "verification", "best_result",
                   "ownership_chain"}
    /\ r.query = "query"
    /\ r.primary_result \in ProviderCandidates \cup {None}
    /\ Len(r.verification) <= 2
    /\ \A k \in 1..Len(r.verification) : r.verification[k] \in ProviderCandidates
    /\ r.best_result \in ProviderCandidates \cup {None}
    /\ r.ownership_chain \in {<<>>} \cup {c.path : c \in ProviderCandidates}

\* C5: for every combination of provider outcomes find_owner returns a
\* well-formed dictionary, and when no candidate was produced best_result is
\* None and ownership_chain is empty.
C5_NoCandidates ==
    \A i \in 1..Len(returned) :
        OwnerReturned(i) =>
            /\ WellFormed(returned[i])
            /\ (returned[i].primary_result = None /\ returned[i].verification = <<>>
                  => returned[i].best_result = None /\ returned[i].ownership_chain = <<>>)

\* Tavily answered without an owner and neither verification found one.
C5_Witness ==
    /\ OwnerReturned(1)
    /\ tavily.kind = "unknown"
    /\ ~wikidata.fail
    /\ wikidata.claims = {}
    /\ wikipedia = "founder"
    /\ returned[1].best_result = None

Ranked == entry \in {"find_owner", "rank"} /\ returned # <<>>

\* C6: after the sort no unverified candidate stands before a verified one,
\* so best_result is verified whenever a verified candidate exists.
C6_VerifiedFirst ==
    Ranked =>
        /\ \A i, j \in 1..Len(all_candidates) :
              (i < j /\ all_candidates[j].verified) => all_candidates[i].verified
        /\ ((\E j \in 1..Len(all_candidates) : all_candidates[j].verified)
              => returned[1].best_result.verified)

\* A verified candidate ranked before an unverified one of higher confidence
\* and relation-type bonus, in find_owner.
C6_Witness ==
    /\ entry = "find_owner"
    /\ returned # <<>>
    /\ Len(all_candidates) >= 2
    /\ all_candidates[1].verified
    /\ ~all_candidates[2].verified
    /\ ConfidenceBonus(all_candidates[2]) + TypeBonus(all_candidates[2])
         > ConfidenceBonus(all_candidates[1]) + TypeBonus(all_candidates[1])

ConfidenceLevel(r) ==
    IF r.confidence = "high" THEN 2 ELSE IF r.confidence = "medium" THEN 1 ELSE 0

\* The relation-type classes of the ranking rule; "owned" and "parent" are the
\* providers' spellings of owned_by and parent organization.
TypeClass(r) ==
    IF r.ownership_type \in {"owned_by", "owned", "parent_company", "parent", "subsidiary"}
    THEN 4
    ELSE IF r.ownership_type = "brand_of" THEN 3
    ELSE IF r.ownership_type \in {"founder", "shareholder"} THEN 2
    ELSE IF r.ownership_type = "public" THEN 1
    ELSE 0

LexBefore(a, b) ==
    LET va == IF a.verified THEN 1 ELSE 0
        vb == IF b.verified THEN 1 ELSE 0
    IN \/ va > vb
       \/ va = vb /\ ConfidenceLevel(a) > ConfidenceLevel(b)
       \/ va = vb /\ ConfidenceLevel(a) = ConfidenceLevel(b) /\ TypeClass(a) > TypeClass(b)

\* C7: the order find_owner's sort produces is the lexicographic order on
\* (verified, confidence level, relation-type class): no candidate stands
\* behind one it precedes lexicographically.
C7_LexicographicOrder ==
    (entry = "find_owner" /\ returned # <<>>) =>
        \A i, j \in 1..Len(all_candidates) :
            i < j => ~LexBefore(all_candidates[j], all_candidates[i])

PermutationsOf(s) ==
    {[i \in 1..Len(s) |-> s[f[i]]] :
        f \in {g \in [1..Len(s) -> 1..Len(s)] : \A a, b \in 1..Len(s) : g[a] = g[b] => a = b}}

\* C8: every permutation of the list find_owner hands to the sort yields the
\* same sorted list, hence the same best_result.
C8_OrderIndependent ==
    (entry = "find_owner" /\ returned # <<>> /\ search_tavily(tavily) # None) =>
        \A p \in PermutationsOf(Collected(tavily, wikidata, wikipedia)) :
            SortByScore(p) = all_candidates

DifferOnlyInHuman(a, b) ==
    /\ a.is_human # b.is_human
    /\ [a EXCEPT !.is_human = b.is_human] = b

\* C9: of two candidates that differ only in is_human, the human one becomes
\* best_result.
C9_HumanPreference ==
    (entry = "rank" /\ returned # <<>> /\ Len(cands) = 2
       /\ DifferOnlyInHuman(cands[1], cands[2]))
        => returned[1].best_result.is_human

\* C10: every call returns what the first call returned: nothing carries over
\* from one call of find_final_owners / find_owners or find_owner to the next.
C10_Idempotent ==
    \A i \in 1..Len(returned) : returned[i] = returned[1]

\* Two traversals of a graph with owners have returned a non-empty list.
C10_Witness ==
    /\ WalkRun
    /\ sparqlUp
    /\ edges # {}
    /\ Len(returned) >= 2
    /\ returned[2] # <<>>

\* The owners the relation fetch returns for q.
FetchedOwners(q) == {run_sparql(q)[k].owner : k \in 1..Len(run_sparql(q))}

\* An ownership path: it starts at the queried entity, follows fetched owners
\* through organizations without meeting an entity twice, and ends at a
\* terminal owner: a person, or an organization for which no owner is fetched.
IsOwnershipPath(p) ==
    /\ p[1] = Start
    /\ \A a, b \in 1..Len(p) : p[a] = p[b] => a = b
    /\ \A j \in 1..(Len(p) - 1) :
          /\ p[j + 1] \in FetchedOwners(p[j])
          /\ j > 1 => p[j] \notin humans
    /\ \/ Len(p) > 1 /\ p[Len(p)] \in humans
       \/ /\ FetchedOwners(p[Len(p)]) = {}
          /\ Len(p) > 1 => p[Len(p)] \notin humans

OwnershipPaths ==
    {p \in UNION {[1..n -> Nodes] : n \in 1..Cardinality(Nodes)} : IsOwnershipPath(p)}

LabelPath(p) == [j \in 1..Len(p) |-> Label(p[j])]

\* C11: find_owners returns a candidate for every distinct ownership path from
\* the start entity to a terminal owner; no path is discarded, also when two
\* branches converge on the same ancestor.
C11_FanOutComplete ==
    \A i \in 1..Len(returned) :
        WalkReturned(i) =>
            \A p \in OwnershipPaths :
                \E k \in 1..Len(returned[i]) : returned[i][k].chemin = LabelPath(p)

\* The order in which "for o in owners" meets the fetched rows: as fetched, or
\* rearranged so that the owners come in the order of the list prio.
AsFetched == <<>>

RECURSIVE IterationOrder(_, _)
IterationOrder(rows, prio) ==
    IF prio = AsFetched THEN rows
    ELSE LET first(r) == r.owner = Head(prio)
             rest(r) == r.owner # Head(prio)
         IN SelectSeq(rows, first)
                \o (IF Tail(prio) = <<>> THEN <<>>
                    ELSE IterationOrder(SelectSeq(rows, rest), Tail(prio)))

\* find_owners as the recursive function it is, the visited set and the results
\* list threaded through the calls as acc, the loop meeting the rows in the
\* order prio.
RECURSIVE find_owners(_, _, _, _)
RECURSIVE OwnersLoop(_, _, _, _)
find_owners(qid, acc, path, prio) ==
    IF qid \in acc.visited THEN acc
    ELSE LET seen == [acc EXCEPT !.visited = MarkVisited(acc.visited, qid)]
             owners == IterationOrder(run_sparql(qid), prio)
         IN IF owners = <<>>
            THEN [seen EXCEPT !.results = Append(@, OrgResult(path, qid))]
            ELSE OwnersLoop(owners, seen, path, prio)

OwnersLoop(owners, acc, path, prio) ==
    IF owners = <<>> THEN acc
    ELSE LET o == Head(owners)
             new_path == Append(path, o.ownerLabel)
         IN OwnersLoop(Tail(owners),
                       IF o.human
                       THEN [acc EXCEPT !.results = Append(@, HumanResult(new_path, o.owner))]
                       ELSE find_owners(o.owner, acc, new_path, prio),
                       path, prio)

\* find_owners(qid) with the defaults of the first call.
WalkResult(prio) ==
    find_owners(Start, [visited |-> NewVisited, results |-> <<>>],
                <<Label(Start)>>, prio).results

PathSet(rs) == {rs[k].chemin : k \in 1..Len(rs)}

\* The recursive function and the step-by-step traversal compute the same list.
WalkResultIsReturned ==
    \A i \in 1..Len(returned) : WalkReturned(i) => returned[i] = WalkResult(AsFetched)

\* C12: the set of candidate paths find_owners returns is the same for every
\* order in which the owners of an entity are iterated.
C12_BranchOrderInvariant ==
    \A i \in 1..Len(returned) :
        WalkReturned(i) =>
            \A prio \in PermutationsOf(SortedSeq(Nodes)) :
                PathSet(WalkResult(prio)) = PathSet(returned[i])

\* The entity a label of a candidate path stands for.
EntityOf(label) == label[2]

\* C13: every candidate path starts with the label of the start entity,
\* follows fetched ownership edges step by step, never contains the same
\* entity twice and has at most as many labels as the graph has entities; no
\* entity is expanded twice in one traversal.
C13_PathInvariant ==
    /\ WalkRun => \A a, b \in 1..Len(expanded) : expanded[a] = expanded[b] => a = b
    /\ \A i \in 1..Len(returned) :
          WalkReturned(i) =>
              \A k \in 1..Len(returned[i]) :
                  LET p == returned[i][k].chemin
                  IN /\ p[1] = Label(Start)
                     /\ \A j \in 1..(Len(p) - 1) :
                           EntityOf(p[j + 1]) \in FetchedOwners(EntityOf(p[j]))
                     /\ \A a, b \in 1..Len(p) : p[a] = p[b] => a = b
                     /\ Len(p) <= Cardinality(Nodes)

\* The candidates the i-th call collected, in the order it collected them:
\* the Tavily primary_result, then the entries of verification.
CollectedBy(i) ==
    IF entry = "find_owner"
    THEN Collect(returned[i].primary_result, returned[i].verification)
    ELSE cands

\* c[k] has the highest score of c and is the earliest element that has it.
EarliestBest(c, k) ==
    /\ \A j \in 1..Len(c) : score_result(c[j]) <= score_result(c[k])
    /\ \A j \in 1..(k - 1) : score_result(c[j]) < score_result(c[k])

\* C14: whenever at least one candidate exists, best_result is one of the
\* collected candidates with maximal score_result, the earliest collected among
\* those of equal score; ownership_chain is best_result's path when it has
\* more than one label, and empty otherwise.
C14_SelectionRule ==
    \A i \in 1..Len(returned) :
        entry \in {"find_owner", "rank"} =>
            LET c == CollectedBy(i)
                best == returned[i].best_result
            IN /\ c # <<>> =>
                     \E k \in 1..Len(c) : best = c[k] /\ EarliestBest(c, k)
               /\ c = <<>> => best = None
               /\ returned[i].ownership_chain
                     = IF best # None /\ Len(best.path) > 1 THEN best.path ELSE <<>>

\* find_owner returned with two different candidates of the same, highest
\* score, and chose the one collected first.
C14_Witness ==
    /\ OwnerReturned(1)
    /\ \E k, l \in 1..Len(CollectedBy(1)) :
          /\ k < l
          /\ CollectedBy(1)[k] # CollectedBy(1)[l]
          /\ score_result(CollectedBy(1)[k]) = score_result(CollectedBy(1)[l])
          /\ EarliestBest(CollectedBy(1), k)
          /\ returned[1].best_result = CollectedBy(1)[k]
          /\ returned[1].ownership_chain = CollectedBy(1)[k].path

====
